---- MODULE Spec2Model ----
(***************************************************************************)
(* Model of commons/utils/system_utils.py: remote and local command        *)
(* execution, directory cleanup, file splitting, backup/restore and the    *)
(* RPM presence check.                                                      *)
(*                                                                          *)
(* Byte strings and text are sequences of one-character strings; a list of *)
(* lines is a sequence of such sequences.  The SSH library, the spawned    *)
(* shell and the operating system are the environment: what they answer    *)
(* (connect succeeds or raises, exit status, stream contents, which        *)
(* unlink fails) is chosen nondeterministically in each action.            *)
(***************************************************************************)
EXTENDS Integers, Sequences, FiniteSets, TLC

(* ------------------------------ bounds -------------------------------- *)
\* longest remote stdout / stderr stream, in characters
MaxOut == 2
MaxErr == 1
\* number of run_remote_cmd calls in one behaviour
MaxCalls == 1
\* longest output of the RPM list command, in characters, and longest RPM name
MaxRpmOut == 3
MaxName == 1
\* most entries in the directory given to cleanup_dir
MaxEntries == 3
\* calls of the file functions in one behaviour
MaxFsCalls == 2
\* largest size argument of split_file, in MB, and largest split_count
MaxSizeMB == 2
MaxSplit == 3
\* largest file_count of create_multiple_size_files
MaxFiles == 2
\* longest local stderr, in pieces (local stdout is bounded by MaxOut)
MaxLocalErr == 2

(* --------------------------- Python helpers --------------------------- *)
Min(a, b) == IF a < b THEN a ELSE b

SeqsUpTo(S, n) == UNION {[1..k -> S] : k \in 0..n}

\* characters a remote stream is made of: a printable one and a line end
Chars == {"a", "\n"}

\* str.strip(): whitespace removed at both ends
IsSpace(c) == c \in {" ", "\n", "\t", "\r"}

RECURSIVE LStrip(_)
LStrip(s) == IF s # <<>> /\ IsSpace(Head(s)) THEN LStrip(Tail(s)) ELSE s

RECURSIVE RStrip(_)
RStrip(s) ==
    IF s # <<>> /\ IsSpace(s[Len(s)]) THEN RStrip(SubSeq(s, 1, Len(s) - 1)) ELSE s

Strip(s) == RStrip(LStrip(s))

\* file.readlines(): the stream cut after every "\n"; the line ends are kept
RECURSIVE ReadLines(_)
ReadLines(s) ==
    IF s = <<>> THEN <<>>
    ELSE LET ends == {i \in 1..Len(s) : s[i] = "\n"}
             cut  == IF ends = {} THEN Len(s)
                     ELSE CHOOSE i \in ends : \A j \in ends : i <= j
         IN  <<SubSeq(s, 1, cut)>> \o ReadLines(SubSeq(s, cut + 1, Len(s)))

\* file.read(n): everything when n is negative, at most n characters otherwise
Read(s, n) == IF n < 0 THEN s ELSE SubSeq(s, 1, Min(n, Len(s)))

(* --------------------------- run_remote_cmd --------------------------- *)
\* keyword arguments as the caller gives them; "None" is an absent keyword
KwReadLines == {"None", "False", "True"}
KwReadNbytes == {[given |-> FALSE, val |-> 0]}
                  \cup {[given |-> TRUE, val |-> v] : v \in {-1, 0, 1}}

\* kwargs.get("read_lines") if kwargs.get("read_lines", None) else False
ReadLinesOf(kw) == kw = "True"

\* kwargs.get("read_nbytes") if kwargs.get("read_nbytes", None) else -1
ReadNbytesOf(kw) == IF kw.given /\ kw.val # 0 THEN kw.val ELSE -1

ExitStatuses == {0, 1}

\* [r.strip().strip("\n").strip() for r in stream.readlines()]
TrimmedLines(s) ==
    LET ls == ReadLines(s) IN [i \in 1..Len(ls) |-> Strip(Strip(Strip(ls[i])))]

\* output: stdout.readlines() trimmed, or stdout.read(read_nbytes)
CaptureOutput(read_lines, read_nbytes, out) ==
    IF read_lines THEN TrimmedLines(out) ELSE Read(out, read_nbytes)

\* error: stderr.readlines() trimmed, or stderr.read()
CaptureError(read_lines, err) ==
    IF read_lines THEN TrimmedLines(err) ELSE err

\* exit_status != 0: raise IOError(error) if error, else raise IOError(output);
\* both raise statements come before client.close()
NonZeroExitAlwaysOutput(error, output) ==
    [kind |-> "IOError", payload |-> output, closed |-> FALSE]

NonZeroExit(error, output) ==
    IF error # <<>>
    THEN [kind |-> "IOError", payload |-> error, closed |-> FALSE]
    ELSE [kind |-> "IOError", payload |-> output, closed |-> FALSE]

\* exit_status == 0: client.close(); raise IOError(error) if error; return output
ZeroExitIgnoresError(error, output) ==
    [kind |-> "return", payload |-> output, closed |-> TRUE]

ZeroExit(error, output) ==
    IF error # <<>>
    THEN [kind |-> "IOError", payload |-> error, closed |-> TRUE]
    ELSE [kind |-> "return", payload |-> output, closed |-> TRUE]

\* the call from exec_command on, once connect has succeeded
RemoteOutcome(read_lines, read_nbytes, exit_status, out, err) ==
    LET output == CaptureOutput(read_lines, read_nbytes, out)
        error  == CaptureError(read_lines, err)
    IN  IF exit_status # 0 THEN NonZeroExit(error, output)
        ELSE ZeroExit(error, output)

(* ---------------------------- run_local_cmd ---------------------------- *)
\* A local byte string is a sequence of pieces; a piece is one of the texts
\* the code looks for, or any other text.  b"..." in x holds when one of the
\* pieces of x is that text.
KeyAdded == "Number of key(s) added: 1"
CmdNotFound == "command not found"
NotRecognized == "not recognized as an internal or external command"

Contains(marker, bytes) == \E i \in 1..Len(bytes) : bytes[i] = marker

OutPieces == {KeyAdded, "x"}
ErrPieces == {CmdNotFound, NotRecognized, "x"}
Cmds == {"", "ls", "ssh-copy-id"}

\* if not cmd: raise ValueError(...)
MissingCmdNeverChecked(cmd) == FALSE

MissingCmd(cmd) == cmd = ""

\* b"command not found" in error or b"not recognized ..." in error or error
FailureOnlyUnixMarker(error) == Contains(CmdNotFound, error)

FailureDetected(error) ==
    \/ Contains(CmdNotFound, error)
    \/ Contains(NotRecognized, error)
    \/ error # <<>>

\* run_local_cmd(cmd), the spawned shell answering (output, error)
LocalOutcome(cmd, output, error) ==
    IF MissingCmd(cmd)
    THEN [kind |-> "ValueError", payload |-> <<>>, spawned |-> FALSE]
    ELSE IF Contains(KeyAdded, output)
    THEN [kind |-> "return", payload |-> output, spawned |-> TRUE]
    ELSE IF FailureDetected(error)
    THEN [kind |-> "IOError", payload |-> error, spawned |-> TRUE]
    ELSE [kind |-> "return", payload |-> output, spawned |-> TRUE]

(* --------------------------- is_rpm_installed ------------------------- *)
\* commands.LST_RPM_CMD, as the docstring of is_machine_clean gives it
LST_RPM_CMD == "rpm -qa | grep eos-prvsnr"

\* what the list command prints: RPM names, one per line
RpmChars == {"f", "o", "\n"}
RpmNames == SeqsUpTo({"f", "o"}, MaxName) \ {<<>>}

\* a in b, for str
IsSubstring(a, b) ==
    \E i \in 0..(Len(b) - Len(a)) : SubSeq(b, i + 1, i + Len(a)) = a

\* x.split("\n")[0]
BeforeNewline(x) ==
    LET ends == {i \in 1..Len(x) : x[i] = "\n"}
    IN  IF ends = {} THEN x
        ELSE SubSeq(x, 1, (CHOOSE i \in ends : \A j \in ends : i <= j) - 1)

\* bool(x) of cmd_output[1]: a byte of a bytes value is an int and is false
\* only when it is 0; a line of a list of lines is false only when empty
Truthy(x, is_bytes) == IF is_bytes THEN x # "\\0" ELSE x # <<>>

\* is_rpm_installed after execute_cmd ended with outcome r; is_bytes says
\* whether execute_cmd returns bytes (local, or remote without read_lines)
RpmOutcome(r, is_bytes, expected_rpm) ==
    IF r.kind # "return" THEN [kind |-> r.kind, payload |-> r.payload]
    ELSE IF Len(r.payload) < 2 THEN [kind |-> "IndexError", payload |-> <<>>]
    ELSE LET second == r.payload[2]
         IN  IF Truthy(second, is_bytes)
             THEN [kind |-> "return", payload |-> <<FALSE, "RPM not found">>]
             ELSE IF is_bytes
             THEN [kind |-> "TypeError", payload |-> <<>>]
             ELSE LET rpm_list == [i \in 1..Len(second) |->
                                      BeforeNewline(<<second[i]>>)]
                      rpm_installed == \E i \in 1..Len(rpm_list) :
                                          IsSubstring(rpm_list[i], expected_rpm)
                  IN  [kind |-> "return",
                       payload |-> <<rpm_installed, "Expected RPM installed">>]

(* ------------------------------ cleanup_dir ---------------------------- *)
\* what an entry of the directory is: a regular file, a symbolic link, a
\* directory, or anything else (FIFO, socket, device node)
EntryKinds == {"file", "link", "dir", "other"}

\* os.path.isfile(p) or os.path.islink(p) -> os.unlink(p);
\* os.path.isdir(p) -> shutil.rmtree(p); there is no else branch
DeleteAttempted(kind) == kind \in {"file", "link", "dir"}

\* listings of at most MaxEntries entries; an entry's id is its place
Listings ==
    {[i \in 1..Len(k) |-> [id |-> i, kind |-> k[i]]] :
        k \in SeqsUpTo(EntryKinds, MaxEntries)}

\* the loop of cleanup_dir from entry i on: fails is the set of places whose
\* unlink or rmtree raises OSError; removed are the places deleted so far
RECURSIVE CleanupFrom(_, _, _, _)
CleanupFrom(listing, i, fails, removed) ==
    IF i > Len(listing) THEN [ret |-> TRUE, removed |-> removed]
    ELSE IF ~DeleteAttempted(listing[i].kind)
    THEN CleanupFrom(listing, i + 1, fails, removed)
    ELSE IF i \in fails THEN [ret |-> FALSE, removed |-> removed]
    ELSE CleanupFrom(listing, i + 1, fails, removed \cup {i})

\* the entries left in the directory
Remaining(listing, removed) ==
    LET keep == {i \in 1..Len(listing) : i \notin removed}
        RECURSIVE Pick(_)
        Pick(i) == IF i > Len(listing) THEN <<>>
                   ELSE IF i \in keep THEN <<listing[i]>> \o Pick(i + 1)
                   ELSE Pick(i + 1)
    IN  Pick(1)

(* ------------------------- files and directories ---------------------- *)
\* a path is <<directory, file name>>; all paths given by callers are absolute
WorkDir == "/work"
BackupDir == "/bk"
DataDir == "/data"

WorkFiles == {<<WorkDir, "a">>, <<WorkDir, "b">>}
BackupFiles == {<<BackupDir, "a">>, <<BackupDir, "b">>}

dirname(path) == path[1]
basename(path) == path[2]

\* a relative name is resolved against the process working directory
Resolve(cwdir, name) == <<cwdir, name>>

\* shutil.copy(src, dstdir) for each pair in order; the first copy whose
\* source is missing raises and ends the loop, earlier copies stay
RECURSIVE CopyAll(_, _, _)
CopyAll(pairs, i, fs) ==
    IF i > Len(pairs) THEN [failed_at |-> 0, files |-> fs]
    ELSE IF pairs[i].src \notin fs THEN [failed_at |-> i, files |-> fs]
    ELSE CopyAll(pairs, i + 1, fs \cup {pairs[i].dst})

\* random generator: as seeded at import by the interpreter, or re-seeded by
\* random.seed(seed); draws counts the random.randint calls since
UnseededRng == [seeded |-> FALSE, seed |-> 0, draws |-> 0]

(* --------------------------- backup_or_restore ------------------------ *)
BackupActions == {"backup", "restore", "verify"}

\* backup lists: the work files, each at most once, in any order
BackupLists ==
    {<<>>} \cup {<<f>> : f \in WorkFiles}
           \cup {<<p[1], p[2]>> : p \in {q \in WorkFiles \X WorkFiles : q[1] # q[2]}}

\* action == "backup": mkdir if missing, then shutil.copy(files, backup_path)
BackupBranch(backup_path, backup_list, w) ==
    LET pairs == [i \in 1..Len(backup_list) |->
                     [src |-> backup_list[i],
                      dst |-> <<backup_path, basename(backup_list[i])>>]]
        c == CopyAll(pairs, 1, w.files)
    IN  [none |-> FALSE, ok |-> c.failed_at = 0, failed_at |-> c.failed_at,
         value |-> IF c.failed_at = 0 THEN backup_list ELSE <<>>,
         cwd |-> w.cwd, dirs |-> w.dirs \cup {backup_path}, files |-> c.files]

\* action == "restore": nothing but a log line when backup_path is missing;
\* else os.chdir(backup_path) and shutil.copy(basename, dirname) for each
RestoreBranch(backup_path, backup_list, w) ==
    IF backup_path \notin w.dirs
    THEN [none |-> TRUE, ok |-> FALSE, failed_at |-> 0, value |-> <<>>,
          cwd |-> w.cwd, dirs |-> w.dirs, files |-> w.files]
    ELSE LET pairs == [i \in 1..Len(backup_list) |->
                          [src |-> Resolve(backup_path, basename(backup_list[i])),
                           dst |-> <<dirname(backup_list[i]),
                                     basename(backup_list[i])>>]]
             c == CopyAll(pairs, 1, w.files)
         IN  [none |-> FALSE, ok |-> c.failed_at = 0, failed_at |-> c.failed_at,
              value |-> IF c.failed_at = 0 THEN <<backup_path>> ELSE <<>>,
              cwd |-> backup_path, dirs |-> w.dirs, files |-> c.files]

\* backup_or_restore_files(action, backup_path, backup_list) in world w;
\* any other action reaches the end of the function, which returns None
BackupOrRestore(action, backup_path, backup_list, w) ==
    IF action = "backup" THEN BackupBranch(backup_path, backup_list, w)
    ELSE IF action = "restore" THEN RestoreBranch(backup_path, backup_list, w)
    ELSE [none |-> TRUE, ok |-> FALSE, failed_at |-> 0, value |-> <<>>,
          cwd |-> w.cwd, dirs |-> w.dirs, files |-> w.files]

(* ------------------------------ remove_dir ----------------------------- *)
\* os.rmdir(dpath) raises OSError when dpath is missing, when it still has
\* entries, or when the operating system refuses (denied)
RmdirRaises(dpath, w, denied) ==
    \/ dpath \notin w.dirs
    \/ \E f \in w.files : dirname(f) = dpath
    \/ denied

\* os.path.exists(dpath), in the directories ds
ExistsInverted(dpath, ds) == dpath \notin ds

Exists(dpath, ds) == dpath \in ds

\* remove_dir(dpath) in world w: the error of os.rmdir propagates; else the
\* directory is gone and the call returns os.path.exists(dpath)
RemoveDir(dpath, w, denied) ==
    IF RmdirRaises(dpath, w, denied)
    THEN [kind |-> "OSError", payload |-> FALSE, dirs |-> w.dirs]
    ELSE LET after == w.dirs \ {dpath}
         IN  [kind |-> "return", payload |-> Exists(dpath, after), dirs |-> after]

(* ------------------------------ split_file ---------------------------- *)
\* bytes in one MB, as split_file computes sizes; the seed it sets
MiB == 1048576
SplitSeed == 1048576

\* "{}/{}_out{}".format(dir_path, os.path.basename(filename), str(ele))
PartPath(filename, ele) ==
    <<dirname(filename), basename(filename) \o "_out" \o ToString(ele)>>

\* read_bytes of an equal-size part: 1048576 * size // split_count
ReadBytesEqual(size, split_count) == (MiB * size) \div split_count

\* read_bytes of a random-size part: random.randint(1048576 * size // 10,
\* 1048576 * size); the two ends of the range stand for the draw
ReadBytesRandom(size) == {(MiB * size) \div 10, MiB * size}

\* q[lo] + ... + q[hi], added by halves
RECURSIVE SumRange(_, _, _)
SumRange(q, lo, hi) ==
    IF lo > hi THEN 0
    ELSE IF lo = hi THEN q[lo]
    ELSE LET mid == (lo + hi) \div 2
         IN  SumRange(q, lo, mid) + SumRange(q, mid + 1, hi)

\* fin.read(read_bytes) for the parts lo..hi in turn, the read position in the
\* source of S bytes being pos before the first of them: each read returns
\* what is left of the source, at most read_bytes, and moves the position by
\* what it returned, never past the end
RECURSIVE ReadParts(_, _, _, _, _)
ReadParts(requested, lo, hi, pos, S) ==
    IF lo > hi THEN <<>>
    ELSE IF lo = hi THEN <<Min(requested[lo], S - pos)>>
    ELSE LET mid == (lo + hi) \div 2
         IN  ReadParts(requested, lo, mid, pos, S)
               \o ReadParts(requested, mid + 1, hi,
                            Min(S, pos + SumRange(requested, lo, mid)), S)

PartSizes(requested, S) == ReadParts(requested, 1, Len(requested), 0, S)

\* buffer of the writer open(fop, 'wb') gives: the block size of the file
\* system, or io.DEFAULT_BUFFER_SIZE; it differs between platforms
BlockSizes == {4096, 8192}

\* os.stat(fop).st_size as read inside the with block, after
\* split_fin.write(data) of n bytes and before the file is closed: a write
\* that fits the buffer stays in it, a larger one goes to the file at once
StatBeforeClose(n, bufsize) == IF n > bufsize THEN n ELSE 0

\* res_d: one {"Output": fop, "Size": os.stat(fop).st_size} per part, sizes
\* being the bytes read from the source and written to each part
SplitResult(filename, sizes, bufsize) ==
    [i \in 1..Len(sizes) |->
        [Output |-> PartPath(filename, i - 1),
         Size |-> StatBeforeClose(sizes[i], bufsize)]]

\* split counts tried: the small ones, and for equal parts one large enough
\* that the parts of a 1 MB source are a single block each
LargeSplit == MiB \div 4096

SplitCounts(random_part_size, extra) ==
    IF random_part_size THEN 0..MaxSplit ELSE 0..MaxSplit \cup extra

(* ------------------------------- state -------------------------------- *)
NoCall == [op |-> "none"]
NoResult == [kind |-> "none"]

VARIABLES
    calls,      \* run_remote_cmd calls made so far; call k opens session k
    sessions,   \* sessions connected and not closed
    call,       \* the last call of the module: arguments and environment answer
    res,        \* its outcome: what it returned or raised
    dir,        \* os.listdir of the directory cleanup_dir works on
    fscalls,    \* calls of the file functions made so far
    cwd,        \* the process working directory
    rng,        \* the state of the module-level random generator
    dirs,       \* directories that exist
    files       \* files that exist

fsvars == <<fscalls, cwd, rng, dirs, files>>
vars == <<calls, sessions, call, res, dir, fscalls, cwd, rng, dirs, files>>

World == [cwd |-> cwd, dirs |-> dirs, files |-> files]

Init ==
    /\ calls = 0
    /\ sessions = {}
    /\ call = NoCall
    /\ res = NoResult
    /\ dir = <<>>
    /\ fscalls = 0
    /\ cwd = WorkDir
    /\ rng = UnseededRng
    /\ dirs = {WorkDir, DataDir}
    /\ files = WorkFiles

\* cleanup_dir is given a directory that already has entries
InitCleanup ==
    /\ calls = 0
    /\ sessions = {}
    /\ call = NoCall
    /\ res = NoResult
    /\ dir \in Listings
    /\ fscalls = 0
    /\ cwd = WorkDir
    /\ rng = UnseededRng
    /\ dirs = {WorkDir, DataDir}
    /\ files = WorkFiles

\* the file functions start in a world where the backup and data directories
\* may or may not exist and any of the work and backup files may be missing
InitFs ==
    /\ calls = 0
    /\ sessions = {}
    /\ call = NoCall
    /\ res = NoResult
    /\ dir = <<>>
    /\ fscalls = 0
    /\ cwd = WorkDir
    /\ rng = UnseededRng
    /\ \E extra \in SUBSET {BackupDir, DataDir} : dirs = {WorkDir} \cup extra
    /\ \E fs \in SUBSET (WorkFiles \cup BackupFiles) :
          /\ \A f \in fs : dirname(f) \in dirs
          /\ files = fs

(* ------------------------------ actions ------------------------------- *)
\* one run of run_remote_cmd's body: ok is whether client.connect succeeded
RemoteRun(ok, read_lines, read_nbytes, st, out, err) ==
    IF ok THEN RemoteOutcome(read_lines, read_nbytes, st, out, err)
    ELSE [kind |-> "ConnectError", payload |-> <<>>, closed |-> FALSE]

RemoteCall(ok, read_lines, read_nbytes, st, out, err) ==
    [op |-> "run_remote_cmd", connected |-> ok, read_lines |-> read_lines,
     read_nbytes |-> read_nbytes, exit_status |-> st,
     stdout |-> out, stderr |-> err]

\* the session of call number calls + 1 stays open unless the call closed it
SessionsAfter(ok, r) ==
    IF ok /\ ~r.closed THEN sessions \cup {calls + 1} ELSE sessions

\* client.connect raises (host unreachable, authentication, timeout, or a
\* keyword it does not accept): nothing was opened, the error propagates
run_remote_cmd_connect_fails ==
    /\ calls < MaxCalls
    /\ \E rl \in KwReadLines, nb \in KwReadNbytes :
          LET r == RemoteRun(FALSE, ReadLinesOf(rl), ReadNbytesOf(nb), 0, <<>>, <<>>)
          IN  /\ call' = RemoteCall(FALSE, ReadLinesOf(rl), ReadNbytesOf(nb),
                                    0, <<>>, <<>>)
              /\ res' = r
              /\ sessions' = SessionsAfter(FALSE, r)
    /\ calls' = calls + 1
    /\ UNCHANGED <<dir, fsvars>>

run_remote_cmd ==
    /\ calls < MaxCalls
    /\ \E rl \in KwReadLines, nb \in KwReadNbytes, st \in ExitStatuses,
          out \in SeqsUpTo(Chars, MaxOut), err \in SeqsUpTo(Chars, MaxErr) :
          LET read_lines  == ReadLinesOf(rl)
              read_nbytes == ReadNbytesOf(nb)
              r == RemoteRun(TRUE, read_lines, read_nbytes, st, out, err)
          IN  /\ call' = RemoteCall(TRUE, read_lines, read_nbytes, st, out, err)
              /\ res' = r
              /\ sessions' = SessionsAfter(TRUE, r)
    /\ calls' = calls + 1
    /\ UNCHANGED <<dir, fsvars>>

run_local_cmd ==
    /\ \E cmd \in Cmds, out \in SeqsUpTo(OutPieces, MaxOut),
          err \in SeqsUpTo(ErrPieces, MaxLocalErr) :
          LET r == LocalOutcome(cmd, out, err)
          IN  /\ call' = [op |-> "run_local_cmd", cmd |-> cmd,
                          stdout |-> IF r.spawned THEN out ELSE <<>>,
                          stderr |-> IF r.spawned THEN err ELSE <<>>]
              /\ res' = r
    /\ UNCHANGED <<calls, sessions, dir, fsvars>>

\* is_rpm_installed(expected_rpm=..., remote=False)
is_rpm_installed_local ==
    /\ \E expected \in RpmNames, out \in SeqsUpTo(RpmChars, MaxRpmOut),
          err \in SeqsUpTo(Chars, MaxErr) :
          LET r == LocalOutcome(LST_RPM_CMD, out, err)
          IN  /\ call' = [op |-> "is_rpm_installed", remote |-> FALSE,
                          expected_rpm |-> expected, read_lines |-> FALSE,
                          listed |-> r.kind = "return",
                          stdout |-> out, stderr |-> err]
              /\ res' = RpmOutcome(r, TRUE, expected)
    /\ UNCHANGED <<calls, sessions, dir, fsvars>>

\* is_rpm_installed(host, user, password, expected_rpm=..., remote=True,
\* read_lines=...); read_nbytes is left at its default
is_rpm_installed_remote ==
    /\ calls < MaxCalls
    /\ \E expected \in RpmNames, ok \in BOOLEAN, rl \in KwReadLines,
          st \in ExitStatuses, out \in SeqsUpTo(RpmChars, MaxRpmOut),
          err \in SeqsUpTo(Chars, MaxErr) :
          LET read_lines == ReadLinesOf(rl)
              r == RemoteRun(ok, read_lines, -1, st, out, err)
          IN  /\ call' = [op |-> "is_rpm_installed", remote |-> TRUE,
                          expected_rpm |-> expected, read_lines |-> read_lines,
                          listed |-> r.kind = "return",
                          stdout |-> out, stderr |-> err]
              /\ res' = RpmOutcome(r, ~read_lines, expected)
              /\ sessions' = SessionsAfter(ok, r)
    /\ calls' = calls + 1
    /\ UNCHANGED <<dir, fsvars>>

\* cleanup_dir(dpath); the environment decides which deletions raise OSError
cleanup_dir ==
    /\ \E fails \in SUBSET {i \in 1..Len(dir) : DeleteAttempted(dir[i].kind)} :
          LET r == CleanupFrom(dir, 1, fails, {})
          IN  /\ call' = [op |-> "cleanup_dir", listing |-> dir, fails |-> fails]
              /\ res' = [kind |-> "return", payload |-> r.ret]
              /\ dir' = Remaining(dir, r.removed)
    /\ UNCHANGED <<calls, sessions, fsvars>>

\* backup_or_restore_files(action, "/bk", backup_list)
backup_or_restore_files ==
    /\ fscalls < MaxFsCalls
    /\ \E action \in BackupActions, backup_list \in BackupLists :
          LET r == BackupOrRestore(action, BackupDir, backup_list, World)
          IN  /\ call' = [op |-> "backup_or_restore_files", action |-> action,
                          backup_path |-> BackupDir, backup_list |-> backup_list,
                          failed_at |-> r.failed_at,
                          dirs_before |-> dirs, files_before |-> files]
              /\ res' = [kind |-> "return", none |-> r.none, ok |-> r.ok,
                         value |-> r.value]
              /\ cwd' = r.cwd
              /\ dirs' = r.dirs
              /\ files' = r.files
    /\ fscalls' = fscalls + 1
    /\ UNCHANGED <<calls, sessions, dir, rng>>

\* create_multiple_size_files(start, stop, file_count, "/data", "t"); the
\* environment decides which create_file call, if any, raises (fail, 0 for
\* none) and whether the file of that call was written all the same
create_multiple_size_files ==
    /\ fscalls < MaxFsCalls
    /\ \E file_count \in 0..MaxFiles :
       \E fail \in 0..file_count, written \in BOOLEAN :
          LET done == IF fail = 0 THEN file_count
                      ELSE IF written THEN fail ELSE fail - 1
              made == {<<DataDir, "t" \o ToString(i)>> : i \in 0..(done - 1)}
              drawn == IF fail = 0 THEN file_count ELSE fail
          IN  /\ (fail = 0 => written)
              /\ call' = [op |-> "create_multiple_size_files",
                          file_count |-> file_count, failed_at |-> fail]
              /\ files' = files \cup made
              /\ res' = [kind |-> "return", none |-> FALSE, ok |-> fail = 0,
                         value |-> IF fail = 0
                                   THEN {basename(f) : f \in
                                          {g \in files' : dirname(g) = DataDir}}
                                   ELSE {}]
              /\ rng' = [rng EXCEPT !.draws = @ + drawn]
    /\ dirs' = dirs \cup {DataDir}
    /\ cwd' = DataDir
    /\ fscalls' = fscalls + 1
    /\ UNCHANGED <<calls, sessions, dir>>

\* split_file("/data/s", size, split_count, random_part_size), the equal-part
\* split counts being the small ones and those of extra; create_file
\* raises when the directory is missing or the environment says so (raises),
\* and then nothing of split_file after it runs
SplitFile(extra) ==
    /\ fscalls < MaxFsCalls
    /\ \E size \in 0..MaxSizeMB, bufsize \in BlockSizes,
          random_part_size \in BOOLEAN, raises \in BOOLEAN, written \in BOOLEAN :
       \E split_count \in SplitCounts(random_part_size, extra) :
       \E requested \in [1..split_count ->
                           IF random_part_size THEN ReadBytesRandom(size)
                           ELSE IF split_count = 0 THEN {0}
                           ELSE {ReadBytesEqual(size, split_count)}] :
       \E sizes \in {PartSizes(requested, MiB * size)} :
          LET filename == <<DataDir, "s">>
              removed == files \ {filename}
              fails == raises \/ DataDir \notin dirs
          IN  /\ (~raises => written)
              /\ call' = [op |-> "split_file", size |-> size,
                          split_count |-> split_count,
                          random_part_size |-> random_part_size,
                          bufsize |-> bufsize,
                          requested |-> IF fails THEN <<>> ELSE requested,
                          written |-> IF fails THEN <<>> ELSE sizes]
              /\ IF fails
                 THEN /\ res' = [kind |-> "IOError", payload |-> <<>>]
                      /\ files' = IF written /\ DataDir \in dirs
                                  THEN removed \cup {filename} ELSE removed
                      /\ rng' = rng
                 ELSE /\ res' = [kind |-> "return",
                                  payload |-> SplitResult(filename, sizes,
                                                          bufsize)]
                      /\ files' = removed \cup {filename}
                                    \cup {PartPath(filename, i - 1) :
                                             i \in 1..split_count}
                      /\ rng' = [seeded |-> TRUE, seed |-> SplitSeed,
                                 draws |-> IF random_part_size
                                           THEN split_count ELSE 0]
    /\ fscalls' = fscalls + 1
    /\ UNCHANGED <<calls, sessions, dir, cwd, dirs>>

\* split_file with the small split counts and the large one
split_file == SplitFile({LargeSplit})

\* split_file with the small split counts only, as the other file helpers'
\* calls come before and after it
split_file_few == SplitFile({})

\* remove_dir(dpath); the environment decides whether os.rmdir is refused
remove_dir ==
    /\ fscalls < MaxFsCalls
    /\ \E dpath \in {WorkDir, BackupDir, DataDir}, denied \in BOOLEAN :
          LET r == RemoveDir(dpath, World, denied)
          IN  /\ call' = [op |-> "remove_dir", dpath |-> dpath,
                          denied |-> denied,
                          dirs_before |-> dirs, files_before |-> files]
              /\ res' = [kind |-> r.kind, payload |-> r.payload]
              /\ dirs' = r.dirs
    /\ fscalls' = fscalls + 1
    /\ UNCHANGED <<calls, sessions, dir, cwd, rng, files>>

Next ==
    \/ run_remote_cmd
    \/ run_remote_cmd_connect_fails

Spec == Init /\ [][Next]_vars

NextLocal == run_local_cmd

SpecLocal == Init /\ [][NextLocal]_vars

NextRpm ==
    \/ is_rpm_installed_local
    \/ is_rpm_installed_remote

SpecRpm == Init /\ [][NextRpm]_vars

NextCleanup == cleanup_dir

SpecCleanup == InitCleanup /\ [][NextCleanup]_vars

NextSplit == split_file

SpecSplit == Init /\ [][NextSplit]_vars

NextFs ==
    \/ backup_or_restore_files
    \/ create_multiple_size_files
    \/ split_file_few

SpecFs == InitFs /\ [][NextFs]_vars

NextDir == remove_dir

SpecDir == InitFs /\ [][NextDir]_vars

(* ------------------------------ claims -------------------------------- *)
IsRemote == call.op = "run_remote_cmd" /\ call.connected
IsLocal == call.op = "run_local_cmd"

\* C1: a run_remote_cmd call whose command exits non-zero raises IOError and
\* never returns; the error carries the captured stderr when stderr is
\* non-empty and the captured stdout otherwise, in both read modes.
C1_NonZeroExitRaises ==
    (IsRemote /\ call.exit_status # 0) =>
        /\ res.kind = "IOError"
        /\ call.stderr # <<>> /\ ~call.read_lines => res.payload = call.stderr
        /\ call.stderr # <<>> /\ call.read_lines =>
               res.payload = TrimmedLines(call.stderr)
        /\ call.stderr = <<>> /\ ~call.read_lines =>
               res.payload = Read(call.stdout, call.read_nbytes)
        /\ call.stderr = <<>> /\ call.read_lines =>
               res.payload = TrimmedLines(call.stdout)

\* non-zero exit with empty stderr and a non-empty stdout, read as lines
C1_Witness ==
    /\ IsRemote /\ call.exit_status # 0
    /\ call.read_lines
    /\ call.stderr = <<>> /\ call.stdout = <<"a", "\n">>
    /\ res.kind = "IOError" /\ res.payload = << <<"a">> >>

\* C2: every session a run_remote_cmd call opened is closed when the call
\* ends, whatever the outcome: no session of an earlier call is still open.
C2_SessionsAlwaysClosed == sessions = {}

\* C9: a run_remote_cmd call whose command exits with status zero raises
\* IOError carrying stderr when the captured stderr is non-empty, and returns
\* the captured stdout exactly when stderr is empty.
C9_ZeroExitOutcome ==
    (IsRemote /\ call.exit_status = 0) =>
        /\ (res.kind = "return") = (call.stderr = <<>>)
        /\ (res.kind = "IOError") = (call.stderr # <<>>)
        /\ res.kind = "IOError" /\ ~call.read_lines => res.payload = call.stderr
        /\ res.kind = "IOError" /\ call.read_lines =>
               res.payload = TrimmedLines(call.stderr)
        /\ res.kind = "return" /\ ~call.read_lines =>
               res.payload = Read(call.stdout, call.read_nbytes)
        /\ res.kind = "return" /\ call.read_lines =>
               res.payload = TrimmedLines(call.stdout)

\* exit status zero, stdout present, and a stderr of one line end read as
\* lines: the call raises with the one trimmed (empty) line
C9_Witness ==
    /\ IsRemote /\ call.exit_status = 0
    /\ call.read_lines
    /\ call.stdout = <<"a">> /\ call.stderr = <<"\n">>
    /\ res.kind = "IOError" /\ res.payload = << <<>> >>

HasNotFoundMarker(error) ==
    Contains(CmdNotFound, error) \/ Contains(NotRecognized, error)

\* C3: a run_local_cmd call with a non-empty command whose stderr contains a
\* command-not-found marker raises IOError, whatever stdout is.
C3_NotFoundAlwaysRaises ==
    (IsLocal /\ call.cmd # "" /\ HasNotFoundMarker(call.stderr)) =>
        res.kind = "IOError"

\* C3 as amended: it raises IOError carrying stderr unless stdout contains the
\* key-installation confirmation; with the confirmation in stdout the call
\* returns stdout although stderr has the marker.
C3_NotFoundRaisesUnlessKeyAdded ==
    (IsLocal /\ call.cmd # "" /\ HasNotFoundMarker(call.stderr)) =>
        IF Contains(KeyAdded, call.stdout)
        THEN res.kind = "return" /\ res.payload = call.stdout
        ELSE res.kind = "IOError" /\ res.payload = call.stderr

\* the Windows marker in stderr next to the confirmation in stdout: returned
C3_Witness ==
    /\ IsLocal /\ call.cmd = "ssh-copy-id"
    /\ call.stderr = <<"x", NotRecognized>>
    /\ call.stdout = <<KeyAdded>>
    /\ res.kind = "return"

\* C4: run_local_cmd with an empty command raises IOError, the error kind of
\* a detected command failure, and spawns no process.
C4_EmptyCmdRaisesIOError ==
    (IsLocal /\ call.cmd = "") => res.kind = "IOError" /\ ~res.spawned

\* C4 as amended: it raises ValueError, which is not the IOError of a
\* detected command failure, and spawns no process.
C4_EmptyCmdRaisesValueError ==
    (IsLocal /\ call.cmd = "") => res.kind = "ValueError" /\ ~res.spawned

\* an empty command was given and rejected
C4_Witness ==
    IsLocal /\ call.cmd = "" /\ res.kind = "ValueError" /\ ~res.spawned

\* the installed-package list the list command returned: its non-empty lines
InstalledList == SelectSeq(TrimmedLines(call.stdout), LAMBDA l : l # <<>>)

\* C7: is_rpm_installed returns found = true when the installed-package list
\* has an entry containing the expected name, and returns (false, "RPM not
\* found") when the installed-package list is empty.
C7_RpmFoundBySubstring ==
    (call.op = "is_rpm_installed" /\ call.listed) =>
        /\ (\E i \in 1..Len(InstalledList) :
               IsSubstring(call.expected_rpm, InstalledList[i]))
             => (res.kind = "return" /\ res.payload[1] = TRUE)
        /\ InstalledList = <<>>
             => (res.kind = "return" /\ res.payload = <<FALSE, "RPM not found">>)

\* the entries of the last cleanup_dir call's listing still in the directory
StillPresent(i) == \E j \in 1..Len(dir) : dir[j] = call.listing[i]

\* C5: cleanup_dir with exactly one entry failing to delete returns false,
\* every entry before the failing one is removed, the failing one and all
\* after it are still present; with no failing entry it returns true and the
\* directory is empty.
C5_CleanupStopsAtFirstFailure ==
    (call.op = "cleanup_dir") =>
        /\ \A k \in 1..Len(call.listing) : call.fails = {k} =>
              /\ res.payload = FALSE
              /\ \A i \in 1..Len(call.listing) : StillPresent(i) = (i >= k)
        /\ call.fails = {} => (res.payload = TRUE /\ dir = <<>>)

\* the sizes of the parts from the i-th on, added up
SumSizes(parts, i) ==
    SumRange([j \in 1..Len(parts) |-> parts[j].Size], i, Len(parts))

\* C6: split_file with equal-size parts on a source of S = 1048576 * size
\* bytes and split_count = N >= 1 returns N parts in order, each of
\* floor(S / N) bytes; the sizes sum to S minus S mod N, which is dropped.
C6_EqualPartsFloor ==
    (call.op = "split_file" /\ ~call.random_part_size
        /\ call.split_count >= 1 /\ res.kind = "return") =>
        LET S == 1048576 * call.size
            N == call.split_count
        IN  /\ Len(res.payload) = N
            /\ \A i \in 1..N :
                  /\ res.payload[i].Size * N <= S
                  /\ (res.payload[i].Size + 1) * N > S
                  /\ res.payload[i].Output = <<DataDir, "s_out" \o ToString(i - 1)>>
            /\ SumSizes(res.payload, 1) = S - (S % N)
            /\ S % N < N

\* C8: no call changes process-wide state shared with other calls: the
\* working directory and the random generator are as before the calls.
C8_NoSharedStateChanged == cwd = WorkDir /\ rng = UnseededRng

CopiedBy(i) ==
    IF call.action = "backup"
    THEN <<call.backup_path, basename(call.backup_list[i])>> \in files
    ELSE call.backup_list[i] \in files

NewlyCopiedBy(i) ==
    IF call.action = "backup"
    THEN <<call.backup_path, basename(call.backup_list[i])>>
            \in files \ call.files_before
    ELSE call.backup_list[i] \in files \ call.files_before

\* C10: backup_or_restore_files works through the list in order; when the
\* k-th copy fails it returns (false, error) with the files before the k-th
\* copied and those after it not; when no copy fails, "backup" returns
\* (true, the list) with the backup directory in place and "restore" returns
\* (true, backup path) with every named file back in its directory.
C10_BatchResult ==
    (call.op = "backup_or_restore_files" /\ call.action \in {"backup", "restore"}) =>
        LET n == Len(call.backup_list)
            k == call.failed_at
        IN  /\ ~res.none
            /\ k > 0 =>
                  /\ ~res.ok
                  /\ \A i \in 1..(k - 1) : CopiedBy(i)
                  /\ \A i \in k..n : ~NewlyCopiedBy(i)
            /\ k = 0 =>
                  /\ res.ok
                  /\ \A i \in 1..n : CopiedBy(i)
                  /\ call.action = "backup" =>
                        (res.value = call.backup_list /\ call.backup_path \in dirs)
                  /\ call.action = "restore" => res.value = <<call.backup_path>>

\* the directory of the last remove_dir call existed and was empty
WasEmptyDir ==
    /\ call.dpath \in call.dirs_before
    /\ \A f \in call.files_before : f[1] # call.dpath

ReportedSizes == [i \in 1..Len(res.payload) |-> res.payload[i].Size]

\* C12: in every split_file call, equal or random part sizes, the returned
\* parts are consecutive byte ranges of the source from offset 0: the list has
\* split_count entries, the reported sizes sum to at most the source size S,
\* and each reported size is the smaller of the requested bytes and the bytes
\* left in the source, so 0 for every part after the source is exhausted.
C12_PartsAreConsecutiveRanges ==
    (call.op = "split_file" /\ res.kind = "return") =>
        LET S == 1048576 * call.size
        IN  /\ Len(res.payload) = call.split_count
            /\ SumRange(ReportedSizes, 1, Len(res.payload)) <= S
            /\ ReportedSizes = ReadParts(call.requested, 1,
                                         Len(call.requested), 0, S)

====
